---- MODULE Spec2Model ----
(***************************************************************************)
(* State-machine model of qudi.util.datafitting:                           *)
(*   FitConfiguration        validated (name, model, estimator, params)    *)
(*   FitConfigurationsModel  ordered, observable list of configurations    *)
(*   FitContainer            runs fits, keeps the last (name, result) pair *)
(* Python exceptions are values [type, line]: the exception class and the  *)
(* source line that raises it.  None is the string "<None>".               *)
(***************************************************************************)
EXTENDS Integers, Sequences, FiniteSets, TLC

VARIABLES
    fit_configurations,           \* FitConfigurationsModel._fit_configurations
    sigFitConfigurationsChanged,  \* payloads emitted by the last model call
    dataChanged,                  \* rows of dataChanged emitted by the last model call
    call,                         \* the last FitConfigurationsModel call and its outcome
    access_lock,                  \* FitContainer._access_lock: the holding thread, 0 when free
    last_fit_config,              \* FitContainer._last_fit_config
    last_fit_result,              \* FitContainer._last_fit_result
    pc,                           \* per thread: the line it is about to execute
    op,                           \* per thread: the FitContainer call it is in or was last in
    fit_config,                   \* per thread: the fit_config argument of fit_data
    local,                        \* per thread: the locals config, result and the name read
    ret,                          \* per thread: the value its last call returned
    raised,                       \* per thread: the exception its last call raised
    sigLastFitResultChanged,      \* per thread: payloads its current or last call emitted
    entry                         \* per thread: the stored pair when it took the lock

setvars == <<fit_configurations, sigFitConfigurationsChanged, dataChanged, call>>

fitvars == <<access_lock, last_fit_config, last_fit_result, pc, op, fit_config, local,
             ret, raised, sigLastFitResultChanged, entry>>

vars == <<fit_configurations, sigFitConfigurationsChanged, dataChanged, call,
          access_lock, last_fit_config, last_fit_result, pc, op, fit_config, local,
          ret, raised, sigLastFitResultChanged, entry>>

\* ------------------------------------------------------------------ bounds
MaxConfigs == 2   \* add_configuration is not called on a list of this length
MaxLoad == 2      \* longest iterable handed to load_configs

\* ------------------------------------------------------------ Python values
None == "<None>"

NoExc == [type |-> "", line |-> 0]

Exc(type, line) == [type |-> type, line |-> line]

\* An lmfit.Parameters object is a set of [name, val]: val stands for the
\* (vary, value, min, max) settings of the parameter.
ParamVals == {0, 1}

Keys(params) == {p.name : p \in params}

\* Values a custom_parameters argument can take: None, an lmfit.Parameters,
\* a str (the text of Parameters.dumps()) or any other object (e.g. a dict).
PyNone == [kind |-> "None", items |-> {}, text |-> <<>>]

Parameters(items) == [kind |-> "Parameters", items |-> items, text |-> <<>>]

PyStr(text) == [kind |-> "str", items |-> {}, text |-> text]

PyDict(items) == [kind |-> "dict", items |-> items, text |-> <<>>]

\* --------------------------------------------------------- model registry
\* _fit_models: the importable fit models; M1 has one estimator and one
\* parameter, M2 has neither.
_fit_models == {"M1", "M2"}

estimators(model) == IF model = "M1" THEN {"e1"} ELSE {}

make_params(model) == IF model = "M1" THEN {[name |-> "p", val |-> 0]} ELSE {}

\* The parameter names in use, in their alphabetical order.
ParamNames == <<"p", "z">>

rank(name) == CHOOSE i \in 1..Len(ParamNames) : ParamNames[i] = name

\* lmfit.Parameters.dumps / loads: the text lists the (name, val) entries in
\* name order; a text with an entry that is no parameter setting does not parse.
RECURSIVE dumps(_)
dumps(items) ==
    IF items = {} THEN <<>>
    ELSE LET first == CHOOSE p \in items :
                          \A q \in items : rank(p.name) <= rank(q.name)
         IN  <<<<first.name, first.val>>>> \o dumps(items \ {first})

loads_ok(text) == \A i \in 1..Len(text) : text[i][2] \in ParamVals

loads(text) == {[name |-> text[i][1], val |-> text[i][2]] : i \in 1..Len(text)}

\* --------------------------------------------------------- FitConfiguration
NullConfig == [name |-> "", model |-> "", estimator |-> None, custom_parameters |-> PyNone]

available_estimators(self) == estimators(self.model)

default_parameters(self) == make_params(self.model)

\* Mutant: the estimator setter without the assertion of line 99.
estimator_setter_NoCheck(self, value) ==
    [exc |-> NoExc, obj |-> [self EXCEPT !.estimator = value]]

\* estimator.setter: [exc, obj] with obj the object after the call.
estimator_setter(self, value) ==
    IF value # None /\ value \notin available_estimators(self)
    THEN [exc |-> Exc("AssertionError", 99), obj |-> self]
    ELSE [exc |-> NoExc, obj |-> [self EXCEPT !.estimator = value]]

custom_parameters_setter(self, value) ==
    IF value.kind # "None" /\ Keys(value.items) \ Keys(default_parameters(self)) # {}
    THEN [exc |-> Exc("AssertionError", 121), obj |-> self]
    ELSE IF value.kind # "None" /\ value.kind # "Parameters"
    THEN [exc |-> Exc("AssertionError", 122), obj |-> self]
    ELSE [exc |-> NoExc,
          obj |-> [self EXCEPT !.custom_parameters =
                      IF value.kind = "None" THEN PyNone ELSE Parameters(value.items)]]

\* Mutant: the constructor without the check of line 75.
FitConfiguration__init__NoReserved(name, model, estimator, custom_parameters) ==
    IF name = "" THEN [exc |-> Exc("AssertionError", 73), obj |-> NullConfig]
    ELSE IF model \notin _fit_models THEN [exc |-> Exc("AssertionError", 74), obj |-> NullConfig]
    ELSE LET self == [name |-> name, model |-> model,
                      estimator |-> None, custom_parameters |-> PyNone]
             e == estimator_setter(self, estimator)
             c == custom_parameters_setter(e.obj, custom_parameters)
         IN  IF e.exc # NoExc THEN [exc |-> e.exc, obj |-> NullConfig]
             ELSE IF c.exc # NoExc THEN [exc |-> c.exc, obj |-> NullConfig]
             ELSE [exc |-> NoExc, obj |-> c.obj]

\* FitConfiguration.__init__: [exc, obj].
FitConfiguration__init__(name, model, estimator, custom_parameters) ==
    IF name = "" THEN [exc |-> Exc("AssertionError", 73), obj |-> NullConfig]
    ELSE IF model \notin _fit_models THEN [exc |-> Exc("AssertionError", 74), obj |-> NullConfig]
    ELSE IF name = "No Fit" THEN [exc |-> Exc("AssertionError", 75), obj |-> NullConfig]
    ELSE LET self == [name |-> name, model |-> model,
                      estimator |-> None, custom_parameters |-> PyNone]
             e == estimator_setter(self, estimator)
             c == custom_parameters_setter(e.obj, custom_parameters)
         IN  IF e.exc # NoExc THEN [exc |-> e.exc, obj |-> NullConfig]
             ELSE IF c.exc # NoExc THEN [exc |-> c.exc, obj |-> NullConfig]
             ELSE [exc |-> NoExc, obj |-> c.obj]

DictKeys == {"name", "model", "estimator", "custom_parameters"}

\* Mutant: to_dict that drops the estimator.
to_dict_NoEstimator(self) ==
    [keys |-> DictKeys,
     name |-> self.name, model |-> self.model, estimator |-> None,
     custom_parameters |-> IF self.custom_parameters.kind = "None" THEN PyNone
                           ELSE PyStr(dumps(self.custom_parameters.items))]

to_dict(self) ==
    [keys |-> DictKeys,
     name |-> self.name, model |-> self.model, estimator |-> self.estimator,
     custom_parameters |-> IF self.custom_parameters.kind = "None" THEN PyNone
                           ELSE PyStr(dumps(self.custom_parameters.items))]

\* Mutant: from_dict handing the text of the parameters to the constructor.
from_dict_NoLoads(dict_repr) ==
    IF dict_repr.keys # DictKeys
    THEN [exc |-> Exc("AssertionError", 136), obj |-> NullConfig]
    ELSE FitConfiguration__init__(
             dict_repr.name, dict_repr.model, dict_repr.estimator,
             dict_repr.custom_parameters)

from_dict(dict_repr) ==
    IF dict_repr.keys # DictKeys
    THEN [exc |-> Exc("AssertionError", 136), obj |-> NullConfig]
    ELSE IF dict_repr.custom_parameters.kind = "str"
              /\ ~loads_ok(dict_repr.custom_parameters.text)
    THEN [exc |-> Exc("JSONDecodeError", 138), obj |-> NullConfig]
    ELSE FitConfiguration__init__(
             dict_repr.name, dict_repr.model, dict_repr.estimator,
             IF dict_repr.custom_parameters.kind = "str"
             THEN Parameters(loads(dict_repr.custom_parameters.text))
             ELSE dict_repr.custom_parameters)

\* --------------------------------------------------- FitConfigurationsModel
configuration_names_of(configs) == [i \in 1..Len(configs) |-> configs[i].name]

configuration_names == configuration_names_of(fit_configurations)

\* tuple.index(name): the first position of name, 0 when it raises ValueError.
index(names, name) ==
    IF \E i \in 1..Len(names) : names[i] = name
    THEN CHOOSE i \in 1..Len(names) : names[i] = name /\ \A j \in 1..(i - 1) : names[j] # name
    ELSE 0

\* list.pop(row_index)
pop(list, row) == [i \in 1..(Len(list) - 1) |-> IF i < row THEN list[i] ELSE list[i + 1]]

\* The record of a call: its method, its arguments (row is index.row() + 1 of
\* setData and the row found by remove_configuration; configs is the argument
\* of load_configs and the list dump_configs returned), the exception it
\* raised, the object it returned (ret) and the bool it returned (flag).
NoCall ==
    [op |-> "__init__", name |-> "", model |-> "", estimator |-> None,
     custom_parameters |-> PyNone, row |-> 0, configs |-> <<>>,
     exc |-> NoExc, ret |-> NullConfig, flag |-> FALSE]

\* Mutant: add_configuration without the check of line 177.
add_configuration_NoDuplicateCheck(name, model, estimator, custom_parameters) ==
    LET config == FitConfiguration__init__(name, model, estimator, custom_parameters)
        exc == IF name = "No Fit" THEN Exc("AssertionError", 178) ELSE config.exc
    IN  /\ Len(fit_configurations) < MaxConfigs
        /\ call' = [NoCall EXCEPT !.op = "add_configuration", !.name = name, !.model = model,
                                !.estimator = estimator,
                                !.custom_parameters = custom_parameters, !.exc = exc]
        /\ dataChanged' = <<>>
        /\ IF exc # NoExc
           THEN /\ fit_configurations' = fit_configurations
                /\ sigFitConfigurationsChanged' = <<>>
           ELSE /\ fit_configurations' = Append(fit_configurations, config.obj)
                /\ sigFitConfigurationsChanged' =
                       <<configuration_names_of(fit_configurations')>>

\* Mutant: add_configuration inserting the new row at the front.
add_configuration_Prepend(name, model, estimator, custom_parameters) ==
    LET config == FitConfiguration__init__(name, model, estimator, custom_parameters)
        exc == IF \E i \in 1..Len(fit_configurations) : fit_configurations[i].name = name
               THEN Exc("AssertionError", 177)
               ELSE IF name = "No Fit" THEN Exc("AssertionError", 178)
               ELSE config.exc
    IN  /\ Len(fit_configurations) < MaxConfigs
        /\ call' = [NoCall EXCEPT !.op = "add_configuration", !.name = name, !.model = model,
                                !.estimator = estimator,
                                !.custom_parameters = custom_parameters, !.exc = exc]
        /\ dataChanged' = <<>>
        /\ IF exc # NoExc
           THEN /\ fit_configurations' = fit_configurations
                /\ sigFitConfigurationsChanged' = <<>>
           ELSE /\ fit_configurations' = <<config.obj>> \o fit_configurations
                /\ sigFitConfigurationsChanged' =
                       <<configuration_names_of(fit_configurations')>>

add_configuration(name, model, estimator, custom_parameters) ==
    LET config == FitConfiguration__init__(name, model, estimator, custom_parameters)
        exc == IF \E i \in 1..Len(fit_configurations) : fit_configurations[i].name = name
               THEN Exc("AssertionError", 177)
               ELSE IF name = "No Fit" THEN Exc("AssertionError", 178)
               ELSE config.exc
    IN  /\ Len(fit_configurations) < MaxConfigs
        /\ call' = [NoCall EXCEPT !.op = "add_configuration", !.name = name, !.model = model,
                                !.estimator = estimator,
                                !.custom_parameters = custom_parameters, !.exc = exc]
        /\ dataChanged' = <<>>
        /\ IF exc # NoExc
           THEN /\ fit_configurations' = fit_configurations
                /\ sigFitConfigurationsChanged' = <<>>
           ELSE /\ fit_configurations' = Append(fit_configurations, config.obj)
                /\ sigFitConfigurationsChanged' =
                       <<configuration_names_of(fit_configurations')>>

\* Mutant: remove_configuration emitting the names before the row is popped.
remove_configuration_EmitFirst(name) ==
    LET row_index == index(configuration_names, name)
    IN  /\ call' = [NoCall EXCEPT !.op = "remove_configuration", !.name = name,
                                !.row = row_index]
        /\ dataChanged' = <<>>
        /\ IF row_index = 0
           THEN /\ fit_configurations' = fit_configurations
                /\ sigFitConfigurationsChanged' = <<>>
           ELSE /\ fit_configurations' = pop(fit_configurations, row_index)
                /\ sigFitConfigurationsChanged' = <<configuration_names>>

remove_configuration(name) ==
    LET row_index == index(configuration_names, name)
    IN  /\ call' = [NoCall EXCEPT !.op = "remove_configuration", !.name = name,
                                !.row = row_index]
        /\ dataChanged' = <<>>
        /\ IF row_index = 0
           THEN /\ fit_configurations' = fit_configurations
                /\ sigFitConfigurationsChanged' = <<>>
           ELSE /\ fit_configurations' = pop(fit_configurations, row_index)
                /\ sigFitConfigurationsChanged' =
                       <<configuration_names_of(fit_configurations')>>

\* get_configuration_by_name as a function of the list: [exc, obj].
get_configuration_by_name(name) ==
    LET row_index == index(configuration_names, name)
    IN  IF row_index = 0
        THEN [exc |-> Exc("ValueError", 201), obj |-> NullConfig]
        ELSE [exc |-> NoExc, obj |-> fit_configurations[row_index]]

GetConfigurationByName(name) ==
    LET r == get_configuration_by_name(name)
    IN  /\ call' = [NoCall EXCEPT !.op = "get_configuration_by_name", !.name = name,
                                !.exc = r.exc, !.ret = r.obj]
        /\ dataChanged' = <<>>
        /\ sigFitConfigurationsChanged' = <<>>
        /\ fit_configurations' = fit_configurations

\* dump_configs: the dict representations, in list order.
dump_configs == [i \in 1..Len(fit_configurations) |-> to_dict(fit_configurations[i])]

DumpConfigsCall ==
    /\ call' = [NoCall EXCEPT !.op = "dump_configs", !.configs = dump_configs]
    /\ dataChanged' = <<>>
    /\ sigFitConfigurationsChanged' = <<>>
    /\ fit_configurations' = fit_configurations

\* load_configs, lines 277-282: the entries that parse, in order.
\* Mutant: a load that stops at the first entry that does not parse.
RECURSIVE config_objects_StopAtFailure(_)
config_objects_StopAtFailure(configs) ==
    IF configs = <<>> THEN <<>>
    ELSE LET r == from_dict(Head(configs))
         IN  IF r.exc = NoExc
             THEN <<r.obj>> \o config_objects_StopAtFailure(Tail(configs))
             ELSE <<>>

RECURSIVE config_objects(_)
config_objects(configs) ==
    IF configs = <<>> THEN <<>>
    ELSE LET r == from_dict(Head(configs))
         IN  (IF r.exc = NoExc THEN <<r.obj>> ELSE <<>>) \o config_objects(Tail(configs))

load_configs(configs) ==
    /\ call' = [NoCall EXCEPT !.op = "load_configs", !.configs = configs]
    /\ dataChanged' = <<>>
    /\ fit_configurations' = config_objects(configs)
    /\ sigFitConfigurationsChanged' = <<configuration_names_of(fit_configurations')>>

\* Mutant: setData assigning the estimator before it reads the value tuples.
setData_EstimatorFirst(row, estimator, new_params) ==
    IF row \notin 1..Len(fit_configurations)
    THEN /\ call' = [NoCall EXCEPT !.op = "setData", !.row = row, !.estimator = estimator,
                                !.custom_parameters = PyDict(new_params)]
         /\ UNCHANGED <<fit_configurations>>
         /\ dataChanged' = <<>>
         /\ sigFitConfigurationsChanged' = <<>>
    ELSE LET config == fit_configurations[row]
             e == estimator_setter(config, IF estimator = "" THEN None ELSE estimator)
             params == {[name |-> p.name,
                         val |-> (CHOOSE n \in new_params : n.name = p.name).val] :
                        p \in {d \in default_parameters(config) : d.name \in Keys(new_params)}}
             bad == \E p \in params : p.val \notin ParamVals
             c == custom_parameters_setter(
                      e.obj, IF params = {} THEN PyNone ELSE Parameters(params))
             exc == IF e.exc # NoExc THEN e.exc
                    ELSE IF bad THEN Exc("IndexError", 241) ELSE c.exc
             after == IF e.exc # NoExc THEN config ELSE IF bad THEN e.obj ELSE c.obj
         IN  /\ call' = [NoCall EXCEPT !.op = "setData", !.row = row, !.estimator = estimator,
                                    !.custom_parameters = PyDict(new_params),
                                    !.exc = exc, !.flag = (exc = NoExc)]
             /\ fit_configurations' = [fit_configurations EXCEPT ![row] = after]
             /\ dataChanged' = IF exc = NoExc THEN <<row>> ELSE <<>>
             /\ sigFitConfigurationsChanged' = <<>>

\* Mutant: setData writing the parameters to every configuration.
setData_SharedParameters(row, estimator, new_params) ==
    IF row \notin 1..Len(fit_configurations)
    THEN /\ call' = [NoCall EXCEPT !.op = "setData", !.row = row, !.estimator = estimator,
                                !.custom_parameters = PyDict(new_params)]
         /\ UNCHANGED <<fit_configurations>>
         /\ dataChanged' = <<>>
         /\ sigFitConfigurationsChanged' = <<>>
    ELSE LET config == fit_configurations[row]
             params == {[name |-> p.name,
                         val |-> (CHOOSE n \in new_params : n.name = p.name).val] :
                        p \in {d \in default_parameters(config) : d.name \in Keys(new_params)}}
             bad == \E p \in params : p.val \notin ParamVals
             e == estimator_setter(config, IF estimator = "" THEN None ELSE estimator)
             c == custom_parameters_setter(
                      e.obj, IF params = {} THEN PyNone ELSE Parameters(params))
             exc == IF bad THEN Exc("IndexError", 241)
                    ELSE IF e.exc # NoExc THEN e.exc ELSE c.exc
             after == IF bad THEN config ELSE IF e.exc # NoExc THEN e.obj ELSE c.obj
         IN  /\ call' = [NoCall EXCEPT !.op = "setData", !.row = row, !.estimator = estimator,
                                    !.custom_parameters = PyDict(new_params),
                                    !.exc = exc, !.flag = (exc = NoExc)]
             /\ fit_configurations' =
                    [i \in 1..Len(fit_configurations) |->
                        IF i = row THEN after
                        ELSE IF exc = NoExc
                        THEN [fit_configurations[i] EXCEPT
                                 !.custom_parameters = after.custom_parameters]
                        ELSE fit_configurations[i]]
             /\ dataChanged' = IF exc = NoExc THEN <<row>> ELSE <<>>
             /\ sigFitConfigurationsChanged' = <<>>

\* setData(index, value): row is index.row() + 1, value = (estimator, new_params);
\* a new_params entry with val -1 is a tuple p.set() cannot take.
setData(row, estimator, new_params) ==
    IF row \notin 1..Len(fit_configurations)
    THEN /\ call' = [NoCall EXCEPT !.op = "setData", !.row = row, !.estimator = estimator,
                                !.custom_parameters = PyDict(new_params)]
         /\ UNCHANGED <<fit_configurations>>
         /\ dataChanged' = <<>>
         /\ sigFitConfigurationsChanged' = <<>>
    ELSE LET config == fit_configurations[row]
             params == {[name |-> p.name,
                         val |-> (CHOOSE n \in new_params : n.name = p.name).val] :
                        p \in {d \in default_parameters(config) : d.name \in Keys(new_params)}}
             bad == \E p \in params : p.val \notin ParamVals
             e == estimator_setter(config, IF estimator = "" THEN None ELSE estimator)
             c == custom_parameters_setter(
                      e.obj, IF params = {} THEN PyNone ELSE Parameters(params))
             exc == IF bad THEN Exc("IndexError", 241)
                    ELSE IF e.exc # NoExc THEN e.exc ELSE c.exc
             after == IF bad THEN config ELSE IF e.exc # NoExc THEN e.obj ELSE c.obj
         IN  /\ call' = [NoCall EXCEPT !.op = "setData", !.row = row, !.estimator = estimator,
                                    !.custom_parameters = PyDict(new_params),
                                    !.exc = exc, !.flag = (exc = NoExc)]
             /\ fit_configurations' = [fit_configurations EXCEPT ![row] = after]
             /\ dataChanged' = IF exc = NoExc THEN <<row>> ELSE <<>>
             /\ sigFitConfigurationsChanged' = <<>>

\* ------------------------------------------------------------------ inputs
InNames == {"a", "b", "No Fit", ""}

InEstimators == {None, "e1"}

P1 == Parameters({[name |-> "p", val |-> 1]})

\* Arguments of add_configuration: (name, model, estimator, custom_parameters),
\* for each name the valid ones and those that fail one check of the constructor.
InAdds ==
    {<<n, a[1], a[2], a[3]>> :
        n \in InNames,
        a \in {<<"M1", None, PyNone>>, <<"M2", None, PyNone>>, <<"M1", "e1", P1>>,
               <<"Mx", None, PyNone>>, <<"M2", "e1", PyNone>>, <<"M2", None, P1>>}}

Dict(name, model, estimator, custom_parameters) ==
    [keys |-> DictKeys, name |-> name, model |-> model, estimator |-> estimator,
     custom_parameters |-> custom_parameters]

InDicts ==
    {Dict("a", "M1", None, PyNone),
     Dict("a", "M2", None, PyNone),
     Dict("b", "M1", "e1", PyStr(<<<<"p", 1>>>>)),
     Dict("No Fit", "M1", None, PyNone),
     [Dict("b", "M1", None, PyNone) EXCEPT !.keys = {"name", "model", "estimator"}],
     Dict("b", "M1", None, PyStr(<<<<"z", 1>>>>))}

SeqsUpTo(S, n) == UNION {[1..k -> S] : k \in 0..n}

\* Entries of a stored configuration file: three that parse and one of every
\* kind that does not (key set, empty name, reserved name, model, estimator,
\* parameter name, parameter text).
InLoadDicts ==
    {Dict("a", "M1", None, PyNone),
     Dict("b", "M1", "e1", PyStr(<<<<"p", 1>>>>)),
     Dict("b", "M2", None, PyNone),
     [Dict("a", "M1", None, PyNone) EXCEPT !.keys = DictKeys \ {"estimator"}],
     Dict("", "M1", None, PyNone),
     Dict("No Fit", "M1", None, PyNone),
     Dict("a", "Mx", None, PyNone),
     Dict("a", "M1", "ex", PyNone),
     Dict("a", "M1", None, PyStr(<<<<"z", 1>>>>)),
     Dict("a", "M1", None, PyStr(<<<<"p", -1>>>>))}

\* Values of setData: (estimator, new_params).
InValues ==
    {<<"", {}>>,
     <<"e1", {[name |-> "p", val |-> 1]}>>,
     <<"ex", {[name |-> "p", val |-> 1]}>>,
     <<"", {[name |-> "p", val |-> -1]}>>,
     <<"", {[name |-> "z", val |-> 1]}>>}


\* ------------------------------------------------------------ FitContainer
Threads == {1, 2}

\* A fit result (lmfit.ModelResult) is identified by the fit_config it was
\* computed for and the thread whose fit_data call computed it.
NoneResult == [fit_config |-> "", thread |-> 0]

Result(name, t) == [fit_config |-> name, thread |-> t]

NoLocal == [config |-> NullConfig, result |-> NoneResult, name |-> ""]

\* The with-statement's exit: the lock is released by the thread holding it.
release(t) == IF access_lock = t THEN 0 ELSE access_lock

\* Mutant: an exception that leaves the call with the lock still taken.
Raise_KeepLock(t, exc) ==
    /\ raised' = [raised EXCEPT ![t] = exc]
    /\ pc' = [pc EXCEPT ![t] = "idle"]
    /\ local' = [local EXCEPT ![t] = NoLocal]
    /\ UNCHANGED <<access_lock, last_fit_config, last_fit_result, op, fit_config, ret,
                   sigLastFitResultChanged, entry>>

\* An exception leaves the with-block: the lock is released, the call ends.
Raise(t, exc) ==
    /\ raised' = [raised EXCEPT ![t] = exc]
    /\ access_lock' = release(t)
    /\ pc' = [pc EXCEPT ![t] = "idle"]
    /\ local' = [local EXCEPT ![t] = NoLocal]
    /\ UNCHANGED <<last_fit_config, last_fit_result, op, fit_config, ret,
                   sigLastFitResultChanged, entry>>

\* A thread enters fit_data(fit_config, x, data).
CallFitData(t, name) ==
    /\ pc[t] = "idle"
    /\ pc' = [pc EXCEPT ![t] = "l322"]
    /\ op' = [op EXCEPT ![t] = "fit_data"]
    /\ fit_config' = [fit_config EXCEPT ![t] = name]
    /\ local' = [local EXCEPT ![t] = NoLocal]
    /\ ret' = [ret EXCEPT ![t] = <<"", NoneResult>>]
    /\ raised' = [raised EXCEPT ![t] = NoExc]
    /\ sigLastFitResultChanged' = [sigLastFitResultChanged EXCEPT ![t] = <<>>]
    /\ entry' = [entry EXCEPT ![t] = <<"", NoneResult>>]
    /\ UNCHANGED <<access_lock, last_fit_config, last_fit_result>>

\* Line 322, with self._access_lock: blocks until the mutex is free.
FitLock(t) ==
    /\ pc[t] = "l322"
    /\ access_lock = 0
    /\ access_lock' = t
    /\ entry' = [entry EXCEPT ![t] = <<last_fit_config, last_fit_result>>]
    /\ pc' = [pc EXCEPT ![t] = "l323"]
    /\ UNCHANGED <<last_fit_config, last_fit_result, op, fit_config, local, ret, raised,
                   sigLastFitResultChanged>>

\* Mutant: the branch without the truth test of line 323.
branch_EmptyAsNoFit(name) ==
    IF name = "" \/ name = "No Fit" THEN "l326" ELSE "l329"

\* Lines 323-328: the branch on fit_config.
branch(name) ==
    IF name = "" THEN "l349" ELSE IF name = "No Fit" THEN "l326" ELSE "l329"

FitBranch(t) ==
    /\ pc[t] = "l323"
    /\ pc' = [pc EXCEPT ![t] = branch(fit_config[t])]
    /\ UNCHANGED <<access_lock, last_fit_config, last_fit_result, op, fit_config, local,
                   ret, raised, sigLastFitResultChanged, entry>>

\* Mutant: the "No Fit" branch without line 326.
FitClearResult_Skip(t) ==
    /\ pc[t] = "l326"
    /\ pc' = [pc EXCEPT ![t] = "l327"]
    /\ UNCHANGED <<access_lock, last_fit_config, last_fit_result, op, fit_config, local,
                   ret, raised, sigLastFitResultChanged, entry>>

\* Line 326: self._last_fit_result = None
FitClearResult(t) ==
    /\ pc[t] = "l326"
    /\ last_fit_result' = NoneResult
    /\ pc' = [pc EXCEPT ![t] = "l327"]
    /\ UNCHANGED <<access_lock, last_fit_config, op, fit_config, local, ret, raised,
                   sigLastFitResultChanged, entry>>

\* Line 327: self._last_fit_config = 'No Fit'
FitClearConfig(t) ==
    /\ pc[t] = "l327"
    /\ last_fit_config' = "No Fit"
    /\ pc' = [pc EXCEPT ![t] = "l347"]
    /\ UNCHANGED <<access_lock, last_fit_result, op, fit_config, local, ret, raised,
                   sigLastFitResultChanged, entry>>

\* Lines 329-332: the configuration is looked up and its fields are read.
FitLookup(t) ==
    /\ pc[t] = "l329"
    /\ LET r == get_configuration_by_name(fit_config[t])
       IN  IF r.exc # NoExc
           THEN Raise(t, r.exc)
           ELSE /\ local' = [local EXCEPT ![t].config = r.obj]
                /\ pc' = [pc EXCEPT ![t] = "l333"]
                /\ UNCHANGED <<access_lock, last_fit_config, last_fit_result, op,
                               fit_config, ret, raised, sigLastFitResultChanged, entry>>

\* Lines 333-339: the initial parameters; the estimator is the fit model's
\* code and may raise.
FitEstimate(t) ==
    /\ pc[t] = "l333"
    /\ \/ /\ pc' = [pc EXCEPT ![t] = "l340"]
          /\ UNCHANGED <<access_lock, last_fit_config, last_fit_result, op, fit_config,
                         local, ret, raised, sigLastFitResultChanged, entry>>
       \/ /\ local[t].config.estimator # None
          /\ Raise(t, Exc("Exception", 336))

\* Mutant: the solver's result is stored as soon as it is there (line 345
\* before lines 342-344).
FitSolve_StoreEarly(t) ==
    /\ pc[t] = "l340"
    /\ \/ /\ local' = [local EXCEPT ![t].result = Result(fit_config[t], t)]
          /\ last_fit_result' = Result(fit_config[t], t)
          /\ pc' = [pc EXCEPT ![t] = "l342"]
          /\ UNCHANGED <<access_lock, last_fit_config, op, fit_config,
                         ret, raised, sigLastFitResultChanged, entry>>
       \/ Raise(t, Exc("Exception", 340))

\* Line 340: result = model.fit(data, parameters, x); the solver may raise.
FitSolve(t) ==
    /\ pc[t] = "l340"
    /\ \/ /\ local' = [local EXCEPT ![t].result = Result(fit_config[t], t)]
          /\ pc' = [pc EXCEPT ![t] = "l342"]
          /\ UNCHANGED <<access_lock, last_fit_config, last_fit_result, op, fit_config,
                         ret, raised, sigLastFitResultChanged, entry>>
       \/ Raise(t, Exc("Exception", 340))

\* Lines 342-344: the high-resolution curve; x[0], linspace and model.eval may raise.
FitEval(t) ==
    /\ pc[t] = "l342"
    /\ \/ /\ pc' = [pc EXCEPT ![t] = "l345"]
          /\ UNCHANGED <<access_lock, last_fit_config, last_fit_result, op, fit_config,
                         local, ret, raised, sigLastFitResultChanged, entry>>
       \/ Raise(t, Exc("Exception", 344))

\* Line 345: self._last_fit_result = result
FitStoreResult(t) ==
    /\ pc[t] = "l345"
    /\ last_fit_result' = local[t].result
    /\ pc' = [pc EXCEPT ![t] = "l346"]
    /\ UNCHANGED <<access_lock, last_fit_config, op, fit_config, local, ret, raised,
                   sigLastFitResultChanged, entry>>

\* Mutant: fit_data without the assignment of line 346.
FitStoreConfig_Skip(t) ==
    /\ pc[t] = "l346"
    /\ pc' = [pc EXCEPT ![t] = "l347"]
    /\ UNCHANGED <<access_lock, last_fit_config, last_fit_result, op, fit_config, local,
                   ret, raised, sigLastFitResultChanged, entry>>

\* Line 346: self._last_fit_config = fit_config
FitStoreConfig(t) ==
    /\ pc[t] = "l346"
    /\ last_fit_config' = fit_config[t]
    /\ pc' = [pc EXCEPT ![t] = "l347"]
    /\ UNCHANGED <<access_lock, last_fit_result, op, fit_config, local, ret, raised,
                   sigLastFitResultChanged, entry>>

\* Line 347: self.sigLastFitResultChanged.emit(...)
FitEmit(t) ==
    /\ pc[t] = "l347"
    /\ sigLastFitResultChanged' =
           [sigLastFitResultChanged EXCEPT
               ![t] = Append(@, <<last_fit_config, last_fit_result>>)]
    /\ pc' = [pc EXCEPT ![t] = "l348"]
    /\ UNCHANGED <<access_lock, last_fit_config, last_fit_result, op, fit_config, local,
                   ret, raised, entry>>

\* Line 348: return self._last_fit_config, self._last_fit_result
FitReturn(t) ==
    /\ pc[t] = "l348"
    /\ ret' = [ret EXCEPT ![t] = <<last_fit_config, last_fit_result>>]
    /\ access_lock' = release(t)
    /\ pc' = [pc EXCEPT ![t] = "idle"]
    /\ local' = [local EXCEPT ![t] = NoLocal]
    /\ UNCHANGED <<last_fit_config, last_fit_result, op, fit_config, raised,
                   sigLastFitResultChanged, entry>>

\* Line 349: return '', None
FitReturnEmpty(t) ==
    /\ pc[t] = "l349"
    /\ ret' = [ret EXCEPT ![t] = <<"", NoneResult>>]
    /\ access_lock' = release(t)
    /\ pc' = [pc EXCEPT ![t] = "idle"]
    /\ local' = [local EXCEPT ![t] = NoLocal]
    /\ UNCHANGED <<last_fit_config, last_fit_result, op, fit_config, raised,
                   sigLastFitResultChanged, entry>>

\* A thread reads the property last_fit.
CallLastFit(t) ==
    /\ pc[t] = "idle"
    /\ pc' = [pc EXCEPT ![t] = "l317"]
    /\ op' = [op EXCEPT ![t] = "last_fit"]
    /\ fit_config' = [fit_config EXCEPT ![t] = ""]
    /\ local' = [local EXCEPT ![t] = NoLocal]
    /\ ret' = [ret EXCEPT ![t] = <<"", NoneResult>>]
    /\ raised' = [raised EXCEPT ![t] = NoExc]
    /\ sigLastFitResultChanged' = [sigLastFitResultChanged EXCEPT ![t] = <<>>]
    /\ entry' = [entry EXCEPT ![t] = <<"", NoneResult>>]
    /\ UNCHANGED <<access_lock, last_fit_config, last_fit_result>>

\* Mutant: last_fit without the mutex.
ReadLock_NoMutex(t) ==
    /\ pc[t] = "l317"
    /\ pc' = [pc EXCEPT ![t] = "l318"]
    /\ UNCHANGED <<access_lock, last_fit_config, last_fit_result, op, fit_config, local,
                   ret, raised, sigLastFitResultChanged, entry>>

\* Line 317, with self._access_lock
ReadLock(t) ==
    /\ pc[t] = "l317"
    /\ access_lock = 0
    /\ access_lock' = t
    /\ pc' = [pc EXCEPT ![t] = "l318"]
    /\ UNCHANGED <<last_fit_config, last_fit_result, op, fit_config, local, ret, raised,
                   sigLastFitResultChanged, entry>>

\* Line 318, first element of the returned tuple: self._last_fit_config
ReadConfig(t) ==
    /\ pc[t] = "l318"
    /\ local' = [local EXCEPT ![t].name = last_fit_config]
    /\ pc' = [pc EXCEPT ![t] = "l318b"]
    /\ UNCHANGED <<access_lock, last_fit_config, last_fit_result, op, fit_config, ret,
                   raised, sigLastFitResultChanged, entry>>

\* Line 318, second element self._last_fit_result, and the return.
ReadResult(t) ==
    /\ pc[t] = "l318b"
    /\ ret' = [ret EXCEPT ![t] = <<local[t].name, last_fit_result>>]
    /\ access_lock' = release(t)
    /\ pc' = [pc EXCEPT ![t] = "idle"]
    /\ local' = [local EXCEPT ![t] = NoLocal]
    /\ UNCHANGED <<last_fit_config, last_fit_result, op, fit_config, raised,
                   sigLastFitResultChanged, entry>>

\* ------------------------------------------------------------------ inputs
InFitConfigs == {"", "No Fit", "a", "b"}

\* ----------------------------------------------------------- specification
Init ==
    /\ fit_configurations = <<>>
    /\ sigFitConfigurationsChanged = <<>>
    /\ dataChanged = <<>>
    /\ call = NoCall
    /\ access_lock = 0
    /\ last_fit_result = NoneResult
    /\ last_fit_config = "No Fit"
    /\ pc = [t \in Threads |-> "idle"]
    /\ op = [t \in Threads |-> ""]
    /\ fit_config = [t \in Threads |-> ""]
    /\ local = [t \in Threads |-> NoLocal]
    /\ ret = [t \in Threads |-> <<"", NoneResult>>]
    /\ raised = [t \in Threads |-> NoExc]
    /\ sigLastFitResultChanged = [t \in Threads |-> <<>>]
    /\ entry = [t \in Threads |-> <<"", NoneResult>>]

AddConfiguration ==
    /\ \E a \in InAdds : add_configuration(a[1], a[2], a[3], a[4])
    /\ UNCHANGED fitvars

RemoveConfiguration ==
    /\ \E name \in InNames : remove_configuration(name)
    /\ UNCHANGED fitvars

GetConfiguration ==
    /\ \E name \in InNames : GetConfigurationByName(name)
    /\ UNCHANGED fitvars

LoadConfigs ==
    /\ \E configs \in SeqsUpTo(InDicts, MaxLoad) : load_configs(configs)
    /\ UNCHANGED fitvars

SetData ==
    /\ \E row \in 1..(MaxConfigs + 1), value \in InValues :
           setData(row, value[1], value[2])
    /\ UNCHANGED fitvars

DumpConfigs ==
    /\ DumpConfigsCall
    /\ UNCHANGED fitvars

\* load_configs(dump_configs()): the list is reloaded from its own dump.
ReloadConfigs ==
    /\ load_configs(dump_configs)
    /\ UNCHANGED fitvars

\* The configuration list under every sequence of its operations.
Next ==
    \/ AddConfiguration
    \/ RemoveConfiguration
    \/ GetConfiguration
    \/ LoadConfigs
    \/ SetData
    \/ DumpConfigs
    \/ ReloadConfigs

Spec == Init /\ [][Next]_vars

\* The owner thread edits the list the fitting threads look names up in.
AddFitConfiguration ==
    /\ \E estimator \in InEstimators : add_configuration("a", "M1", estimator, PyNone)
    /\ UNCHANGED fitvars

RemoveFitConfiguration ==
    /\ remove_configuration("a")
    /\ UNCHANGED fitvars

FitData(t) ==
    /\ \/ \E name \in InFitConfigs : CallFitData(t, name)
       \/ FitLock(t)
       \/ FitBranch(t)
       \/ FitClearResult(t)
       \/ FitClearConfig(t)
       \/ FitLookup(t)
       \/ FitEstimate(t)
       \/ FitSolve(t)
       \/ FitEval(t)
       \/ FitStoreResult(t)
       \/ FitStoreConfig(t)
       \/ FitEmit(t)
       \/ FitReturn(t)
       \/ FitReturnEmpty(t)
    /\ UNCHANGED setvars

LastFit(t) ==
    /\ \/ CallLastFit(t)
       \/ ReadLock(t)
       \/ ReadConfig(t)
       \/ ReadResult(t)
    /\ UNCHANGED setvars

\* Threads calling fit_data and last_fit while the owner edits the list.
FitNext ==
    \/ AddFitConfiguration
    \/ RemoveFitConfiguration
    \/ \E t \in Threads : FitData(t)
    \/ \E t \in Threads : LastFit(t)

FitSpec == Init /\ [][FitNext]_vars

\* A thread takes the lock for fit_data or last_fit.
Acquire(t) ==
    /\ FitLock(t) \/ ReadLock(t)
    /\ UNCHANGED setvars

\* A thread inside fit_data or last_fit runs its next statement.
Running(t) ==
    /\ \/ FitBranch(t)
       \/ FitClearResult(t)
       \/ FitClearConfig(t)
       \/ FitLookup(t)
       \/ FitEstimate(t)
       \/ FitSolve(t)
       \/ FitEval(t)
       \/ FitStoreResult(t)
       \/ FitStoreConfig(t)
       \/ FitEmit(t)
       \/ FitReturn(t)
       \/ FitReturnEmpty(t)
       \/ ReadConfig(t)
       \/ ReadResult(t)
    /\ UNCHANGED setvars

\* FitSpec under fair scheduling: a thread inside a call keeps running (the
\* estimator and the solver return or raise), and a thread that finds the
\* lock free again and again takes it.
LiveSpec ==
    /\ Init
    /\ [][FitNext]_vars
    /\ \A t \in Threads : WF_vars(Running(t)) /\ SF_vars(Acquire(t))

\* load_configs of a stored configuration file.
LoadEntries ==
    /\ \E configs \in SeqsUpTo(InLoadDicts, MaxLoad) : load_configs(configs)
    /\ UNCHANGED fitvars

\* The configuration list under loads of files with damaged entries.
LoadNext ==
    \/ LoadEntries
    \/ AddFitConfiguration
    \/ RemoveFitConfiguration

LoadSpec == Init /\ [][LoadNext]_vars

\* ------------------------------------------- operations on a configuration
\* Arguments of the constructor and of the custom_parameters setter.
InParameters ==
    {PyNone,
     Parameters({}),
     Parameters({[name |-> "p", val |-> 0]}),
     P1,
     Parameters({[name |-> "z", val |-> 1]}),
     PyDict({[name |-> "p", val |-> 1]})}

InSetEstimators == {None, "e1", "ex"}

\* The configurations the constructor returns for names "a" and "b".
ValidConfigs ==
    {r.obj : r \in {x \in {FitConfiguration__init__(n, m, est, cp) :
                                n \in {"a", "b"}, m \in _fit_models \cup {"Mx"},
                                est \in InSetEstimators, cp \in InParameters} :
                        x.exc = NoExc}}

\* Key sets of the mappings handed to from_dict.
InKeySets ==
    {DictKeys, DictKeys \cup {"units"}} \cup {DictKeys \ {k} : k \in DictKeys}

\* FitConfigurationsModel(configurations=[c]) for a constructed c.
ConfigInit ==
    /\ fit_configurations \in {<<c>> : c \in ValidConfigs}
    /\ sigFitConfigurationsChanged = <<>>
    /\ dataChanged = <<>>
    /\ call = NoCall
    /\ access_lock = 0
    /\ last_fit_result = NoneResult
    /\ last_fit_config = "No Fit"
    /\ pc = [t \in Threads |-> "idle"]
    /\ op = [t \in Threads |-> ""]
    /\ fit_config = [t \in Threads |-> ""]
    /\ local = [t \in Threads |-> NoLocal]
    /\ ret = [t \in Threads |-> <<"", NoneResult>>]
    /\ raised = [t \in Threads |-> NoExc]
    /\ sigLastFitResultChanged = [t \in Threads |-> <<>>]
    /\ entry = [t \in Threads |-> <<"", NoneResult>>]

\* to_dict() of the configuration of a row; call.configs holds the mapping.
ToDict ==
    /\ \E row \in 1..Len(fit_configurations) :
           call' = [NoCall EXCEPT !.op = "to_dict", !.row = row,
                                  !.configs = <<to_dict(fit_configurations[row])>>]
    /\ dataChanged' = <<>>
    /\ sigFitConfigurationsChanged' = <<>>
    /\ UNCHANGED <<fit_configurations, fitvars>>

\* from_dict of the mapping to_dict returned, with its key set or another.
FromDict ==
    /\ \E row \in 1..Len(fit_configurations), keys \in InKeySets :
           LET dict_repr == [to_dict(fit_configurations[row]) EXCEPT !.keys = keys]
               r == from_dict(dict_repr)
           IN  call' = [NoCall EXCEPT !.op = "from_dict", !.row = row,
                                      !.configs = <<dict_repr>>,
                                      !.exc = r.exc, !.ret = r.obj]
    /\ dataChanged' = <<>>
    /\ sigFitConfigurationsChanged' = <<>>
    /\ UNCHANGED <<fit_configurations, fitvars>>

\* config.estimator = value on the configuration of a row.
SetEstimator ==
    /\ \E row \in 1..Len(fit_configurations), value \in InSetEstimators :
           LET r == estimator_setter(fit_configurations[row], value)
           IN  /\ call' = [NoCall EXCEPT !.op = "estimator", !.row = row,
                                         !.estimator = value, !.exc = r.exc]
               /\ fit_configurations' = [fit_configurations EXCEPT ![row] = r.obj]
    /\ dataChanged' = <<>>
    /\ sigFitConfigurationsChanged' = <<>>
    /\ UNCHANGED fitvars

\* config.custom_parameters = value on the configuration of a row.
SetCustomParameters ==
    /\ \E row \in 1..Len(fit_configurations), value \in InParameters :
           LET r == custom_parameters_setter(fit_configurations[row], value)
           IN  /\ call' = [NoCall EXCEPT !.op = "custom_parameters", !.row = row,
                                         !.custom_parameters = value, !.exc = r.exc]
               /\ fit_configurations' = [fit_configurations EXCEPT ![row] = r.obj]
    /\ dataChanged' = <<>>
    /\ sigFitConfigurationsChanged' = <<>>
    /\ UNCHANGED fitvars

\* One configuration under its own operations.
ConfigNext ==
    \/ ToDict
    \/ FromDict
    \/ SetEstimator
    \/ SetCustomParameters
    \/ SetData

ConfigSpec == ConfigInit /\ [][ConfigNext]_vars

\* FitConfigurationsModel(configurations=[a, b]) for two constructed
\* configurations.
FrameInit ==
    /\ fit_configurations =
           <<FitConfiguration__init__("a", "M2", None, PyNone).obj,
             FitConfiguration__init__("b", "M1", "e1", P1).obj>>
    /\ sigFitConfigurationsChanged = <<>>
    /\ dataChanged = <<>>
    /\ call = NoCall
    /\ access_lock = 0
    /\ last_fit_result = NoneResult
    /\ last_fit_config = "No Fit"
    /\ pc = [t \in Threads |-> "idle"]
    /\ op = [t \in Threads |-> ""]
    /\ fit_config = [t \in Threads |-> ""]
    /\ local = [t \in Threads |-> NoLocal]
    /\ ret = [t \in Threads |-> <<"", NoneResult>>]
    /\ raised = [t \in Threads |-> NoExc]
    /\ sigLastFitResultChanged = [t \in Threads |-> <<>>]
    /\ entry = [t \in Threads |-> <<"", NoneResult>>]

\* A list of two configurations under the operations that are not to change
\* its structure, fits of one thread among them.
FrameNext ==
    \/ SetData
    \/ SetEstimator
    \/ SetCustomParameters
    \/ GetConfiguration
    \/ DumpConfigs
    \/ FitData(1)

FrameSpec == FrameInit /\ [][FrameNext]_vars

\* ==================================================================== claims
\* The exception classes of the specification, as the code raises them: every
\* validation failure is an AssertionError of the constructor, the setters,
\* from_dict or line 178; a name collision is the AssertionError of line 177.
ValidationError(exc) ==
    exc.type = "AssertionError" /\ exc.line \in {73, 74, 75, 99, 121, 122, 136, 178}

DuplicateNameError(exc) == exc = Exc("AssertionError", 177)

Names(configs) == {configs[i].name : i \in 1..Len(configs)}

\* C1: in every reachable state no two elements of the collection share a
\* name, load_configs of two well-formed entries with one name included.
C1_UniqueNames ==
    \A i, j \in 1..Len(fit_configurations) :
        i # j => fit_configurations[i].name # fit_configurations[j].name

\* C2: "No Fit" is never the name of an element, whatever add_configuration and
\* load_configs are given, and remove_configuration("No Fit") changes nothing.
C2_NoFitNeverAnElement ==
    /\ [](\A i \in 1..Len(fit_configurations) : fit_configurations[i].name # "No Fit")
    /\ [][(call'.op = "remove_configuration" /\ call'.name = "No Fit")
            => (fit_configurations' = fit_configurations
                /\ sigFitConfigurationsChanged' = <<>>)]_vars

\* C2 witness: a load_configs call given a "No Fit" entry among others has
\* kept the others.
C2_Witness ==
    /\ call.op = "load_configs"
    /\ \E i \in 1..Len(call.configs) :
           call.configs[i].name = "No Fit" /\ call.configs[i].keys = DictKeys
    /\ Len(fit_configurations) > 0

\* C8: add_configuration of "No Fit" fails with a ValidationError, of a name
\* in use with the DuplicateNameError; a failing call (these two, an unknown
\* model, an invalid estimator or custom_parameters) leaves the list as it was
\* and emits nothing.
C8_AddFailsCleanly ==
    [][call'.op = "add_configuration" =>
          /\ call'.name = "No Fit" => ValidationError(call'.exc)
          /\ call'.name \in Names(fit_configurations) => DuplicateNameError(call'.exc)
          /\ (\/ call'.model \notin _fit_models
              \/ (call'.estimator # None /\ call'.estimator \notin estimators(call'.model))
              \/ Keys(call'.custom_parameters.items) \ Keys(make_params(call'.model)) # {})
             => call'.exc # NoExc
          /\ call'.exc # NoExc =>
                (fit_configurations' = fit_configurations
                 /\ sigFitConfigurationsChanged' = <<>>)]_vars

\* C8 witness: a duplicate add has failed on a list that holds the name.
C8_Witness ==
    /\ call.op = "add_configuration"
    /\ DuplicateNameError(call.exc)
    /\ call.name \in Names(fit_configurations)

\* C9: a successful add_configuration appends: the earlier rows keep their
\* positions, the new row is last, and get_configuration_by_name(name) then
\* returns a configuration with the name and the model given.
C9_AddAppends ==
    [][(call'.op = "add_configuration" /\ call'.exc = NoExc) =>
          /\ configuration_names' = Append(configuration_names, call'.name)
          /\ \A i \in 1..Len(fit_configurations) :
                 fit_configurations'[i] = fit_configurations[i]
          /\ (get_configuration_by_name(call.name))'.exc = NoExc
          /\ (get_configuration_by_name(call.name))'.obj.name = call'.name
          /\ (get_configuration_by_name(call.name))'.obj.model = call'.model]_vars

\* C9 witness: a second configuration has been added after a first.
C9_Witness ==
    /\ call.op = "add_configuration"
    /\ call.exc = NoExc
    /\ Len(fit_configurations) = 2
    /\ fit_configurations[2].name = call.name
    /\ fit_configurations[2].model = "M2"

\* C10: remove_configuration of an absent name changes nothing and emits
\* nothing; of a present name it removes one row, keeps the order of the
\* others, and the emitted tuple of names does not hold the name.
C10_RemoveExcludesName ==
    [][call'.op = "remove_configuration" =>
          IF call'.name \notin Names(fit_configurations)
          THEN /\ fit_configurations' = fit_configurations
               /\ sigFitConfigurationsChanged' = <<>>
               /\ call'.exc = NoExc
          ELSE /\ Len(fit_configurations') = Len(fit_configurations) - 1
               /\ \E k \in 1..Len(fit_configurations) :
                      /\ fit_configurations[k].name = call'.name
                      /\ fit_configurations' =
                             SubSeq(fit_configurations, 1, k - 1)
                                 \o SubSeq(fit_configurations, k + 1, Len(fit_configurations))
               /\ Len(sigFitConfigurationsChanged') = 1
               /\ \A i \in 1..Len(sigFitConfigurationsChanged'[1]) :
                      sigFitConfigurationsChanged'[1][i] # call'.name]_vars

\* The stored pair (last_fit_config, last_fit_result).
last_fit == <<last_fit_config, last_fit_result>>

NoFitPair == <<"No Fit", NoneResult>>

\* A pair one fit_data call wrote: the initial or "No Fit" pair, or a name
\* with a result computed for that name.
WrittenTogether(pair) ==
    \/ pair = NoFitPair
    \/ /\ pair[1] \notin {"", "No Fit"}
       /\ pair[2] # NoneResult
       /\ pair[2].fit_config = pair[1]

\* The step in which thread t's call ends, by a return or by an exception.
Ends(t) == pc[t] # "idle" /\ pc'[t] = "idle"

\* The LookupError of the specification is the ValueError of line 201.
LookupError(exc) == exc = Exc("ValueError", 201)

\* C3: under every interleaving of fit_data and last_fit calls, each pair
\* last_fit returns was written together by one fit_data call, or is the
\* initial ("No Fit", None).
C3_LastFitReturnsWholePairs ==
    \A t \in Threads : (op[t] = "last_fit" /\ pc[t] = "idle") => WrittenTogether(ret[t])

\* C3 witness: a reader has returned a fit's pair, and another thread is
\* between the two writes of its own update.
C3_Witness ==
    \E t, u \in Threads :
        /\ op[t] = "last_fit" /\ pc[t] = "idle" /\ ret[t][2] # NoneResult
        /\ pc[u] = "l327" /\ last_fit_config # "No Fit"

\* C4: the lock is never held while the solver call model.fit of a fit_data
\* call is running.
C4_SolverRunsUnlocked == \A t \in Threads : pc[t] = "l340" => access_lock # t

\* C5: a fit_data call that raises (the LookupError of an unregistered name,
\* or an exception of the estimator, the solver or the curve evaluation)
\* leaves the stored pair as it was when the call took the lock and has
\* emitted no sigLastFitResultChanged.
C5_FailedFitChangesNothing ==
    [][\A t \in Threads :
          (Ends(t) /\ op[t] = "fit_data" /\ raised'[t] # NoExc) =>
              /\ last_fit' = entry[t]
              /\ sigLastFitResultChanged'[t] = <<>>
              /\ LookupError(raised'[t]) \/ raised'[t].line \in {336, 340, 344}
              /\ LookupError(raised'[t]) =>
                     fit_config[t] \notin Names(fit_configurations)]_vars

\* C5 witness: after a fit was stored, one call has failed with the
\* LookupError and one in the curve evaluation.
C5_Witness ==
    \E t, u \in Threads :
        /\ LookupError(raised[t]) /\ entry[t][1] = "a"
        /\ raised[u].line = 344 /\ entry[u][1] = "a"

\* C6: from any stored pair, fit_data("No Fit", x, data) returns
\* ("No Fit", None), leaves that pair stored and has emitted exactly one
\* sigLastFitResultChanged, carrying it.
C6_NoFitClears ==
    [][\A t \in Threads :
          (Ends(t) /\ op[t] = "fit_data" /\ fit_config[t] = "No Fit") =>
              /\ raised'[t] = NoExc
              /\ ret'[t] = NoFitPair
              /\ last_fit' = NoFitPair
              /\ sigLastFitResultChanged'[t] = <<NoFitPair>>]_vars

\* C6 witness: a "No Fit" call has returned that found a fit's pair stored.
C6_Witness ==
    \E t \in Threads :
        /\ op[t] = "fit_data" /\ fit_config[t] = "No Fit" /\ pc[t] = "idle"
        /\ ret[t] = NoFitPair
        /\ entry[t][1] = "a"

\* C7: fit_data with an empty fit_config returns ('', None), leaves the
\* stored pair as it was and emits no sigLastFitResultChanged.
C7_EmptyNameChangesNothing ==
    [][\A t \in Threads :
          (Ends(t) /\ op[t] = "fit_data" /\ fit_config[t] = "") =>
              /\ raised'[t] = NoExc
              /\ ret'[t] = <<"", NoneResult>>
              /\ last_fit' = entry[t]
              /\ last_fit' = last_fit
              /\ sigLastFitResultChanged'[t] = <<>>]_vars

\* C7 witness: a call with the empty name has returned that found a fit's
\* pair stored.
C7_Witness ==
    \E t \in Threads :
        /\ op[t] = "fit_data" /\ fit_config[t] = "" /\ pc[t] = "idle"
        /\ raised[t] = NoExc
        /\ entry[t][1] = "a"
        /\ last_fit_config = "a"

\* C11: a successful add_configuration, a remove_configuration of a present
\* name and every load_configs emit exactly one sigFitConfigurationsChanged,
\* whose payload is the tuple of names after the mutation; every other call
\* (get_configuration_by_name, dump_configs, setData, a failed add, a remove
\* of an absent name) emits none.
C11_OneNotificationPerChange ==
    [][IF \/ call'.op = "add_configuration" /\ call'.exc = NoExc
          \/ call'.op = "remove_configuration"
                 /\ call'.name \in Names(fit_configurations)
          \/ call'.op = "load_configs"
       THEN sigFitConfigurationsChanged' =
                <<[i \in 1..Len(fit_configurations') |-> fit_configurations'[i].name]>>
       ELSE sigFitConfigurationsChanged' = <<>>]_setvars

\* C11 witness: a remove_configuration has emitted the names that are left.
C11_Witness ==
    /\ call.op = "remove_configuration"
    /\ call.row > 0
    /\ Len(fit_configurations) > 0
    /\ sigFitConfigurationsChanged = <<configuration_names>>

\* C12: load_configs(dump_configs()) leaves the list as it was: the same
\* names in the same order, each with its model, estimator and
\* custom_parameters.
C12_ReloadOfDumpIsIdentity ==
    [][(call'.op = "load_configs"
        /\ call'.configs = [i \in 1..Len(fit_configurations) |->
                               to_dict(fit_configurations[i])])
       => fit_configurations' = fit_configurations]_setvars

\* C12 witness: a list of two configurations, one with an estimator and
\* custom parameters, has been reloaded from its own dump.
C12_Witness ==
    /\ call.op = "load_configs"
    /\ Len(fit_configurations) = 2
    /\ call.configs = dump_configs
    /\ \E i \in 1..2 : /\ fit_configurations[i].estimator = "e1"
                        /\ fit_configurations[i].custom_parameters = P1

\* An entry of a stored file parses: it has the four keys, a name that is
\* neither empty nor reserved, a registered model, no estimator or one of the
\* model, and parameters that are absent or a text of settings of the model's
\* parameters.
Parses(d) ==
    /\ d.keys = DictKeys
    /\ d.name \notin {"", "No Fit"}
    /\ d.model \in _fit_models
    /\ d.estimator = None \/ d.estimator \in estimators(d.model)
    /\ \/ d.custom_parameters.kind = "None"
       \/ /\ d.custom_parameters.kind = "str"
          /\ \A i \in 1..Len(d.custom_parameters.text) :
                 /\ d.custom_parameters.text[i][2] \in ParamVals
                 /\ \E q \in make_params(d.model) :
                        q.name = d.custom_parameters.text[i][1]

\* C13: after load_configs the list holds exactly the entries that parse, in
\* the order of the argument, whatever it held before; the entries that do
\* not parse are skipped; exactly one sigFitConfigurationsChanged is emitted,
\* also when no entry parses.
C13_LoadReplacesWithParsedEntries ==
    [][call'.op = "load_configs"
       => LET kept == SelectSeq(call'.configs, Parses)
          IN  /\ Len(fit_configurations') = Len(kept)
              /\ \A i \in 1..Len(kept) :
                     /\ fit_configurations'[i].name = kept[i].name
                     /\ fit_configurations'[i].model = kept[i].model
                     /\ fit_configurations'[i].estimator = kept[i].estimator
                     /\ IF kept[i].custom_parameters.kind = "None"
                        THEN fit_configurations'[i].custom_parameters = PyNone
                        ELSE fit_configurations'[i].custom_parameters.items =
                                 {[name |-> kept[i].custom_parameters.text[j][1],
                                   val |-> kept[i].custom_parameters.text[j][2]] :
                                      j \in 1..Len(kept[i].custom_parameters.text)}
              /\ Len(sigFitConfigurationsChanged') = 1
              /\ sigFitConfigurationsChanged'[1] = [i \in 1..Len(kept) |-> kept[i].name]
      ]_setvars

\* C13 witness: a load whose first entry does not parse and whose second does
\* has replaced a list that held another configuration.
C13_Witness ==
    /\ call.op = "load_configs"
    /\ Len(call.configs) = 2
    /\ ~Parses(call.configs[1])
    /\ Parses(call.configs[2])
    /\ Len(fit_configurations) = 1
    /\ fit_configurations[1].name = "b"
    /\ Len(sigFitConfigurationsChanged) = 1

\* C13 in the case that no entry parses: the list is emptied and the one
\* notification carries the empty tuple.
C13_WitnessAllFail ==
    /\ call.op = "load_configs"
    /\ Len(call.configs) = 2
    /\ fit_configurations = <<>>
    /\ sigFitConfigurationsChanged = << <<>> >>

\* The entries of new_params that setData keeps for a configuration: those
\* of the parameters of its model.
Pruned(config, new_params) ==
    {n \in new_params : \E q \in make_params(config.model) : q.name = n.name}

\* C14: a setData on a row of the list that fails (an estimator the model
\* does not have, a value tuple p.set cannot take) changes neither estimator
\* nor custom_parameters and emits no dataChanged; one that succeeds leaves
\* the row with the new estimator (None for a falsy one) and the pruned
\* parameters (None when none is left) and emits dataChanged once, for that row.
C14_SetDataAllOrNothing ==
    [][(call'.op = "setData" /\ call'.row \in 1..Len(fit_configurations))
       => LET row == call'.row
              config == fit_configurations[row]
              kept == Pruned(config, call'.custom_parameters.items)
              fails == \/ /\ call'.estimator # ""
                          /\ call'.estimator \notin estimators(config.model)
                       \/ \E n \in kept : n.val \notin ParamVals
          IN  IF fails
              THEN /\ call'.exc # NoExc
                   /\ fit_configurations' = fit_configurations
                   /\ dataChanged' = <<>>
              ELSE /\ call'.exc = NoExc
                   /\ call'.flag
                   /\ fit_configurations'[row].estimator =
                          (IF call'.estimator = "" THEN None ELSE call'.estimator)
                   /\ fit_configurations'[row].custom_parameters =
                          (IF kept = {} THEN PyNone ELSE Parameters(kept))
                   /\ dataChanged' = <<row>>]_setvars

\* C14 witness: a setData asking for no estimator has failed on a value tuple
\* and the row still has its estimator and its parameters.
C14_Witness ==
    /\ call.op = "setData"
    /\ call.exc = Exc("IndexError", 241)
    /\ call.estimator = ""
    /\ call.row \in 1..Len(fit_configurations)
    /\ fit_configurations[call.row].estimator = "e1"
    /\ fit_configurations[call.row].custom_parameters = P1
    /\ dataChanged = <<>>

\* C15: from_dict(to_dict(c)) returns a configuration with the name, model,
\* estimator and custom parameters of c; from_dict of a mapping with another
\* key set fails with ValidationError.
C15_DictRoundTrip ==
    call.op = "from_dict"
    => LET dict_repr == call.configs[1]
           c == fit_configurations[call.row]
       IN  IF dict_repr.keys = DictKeys
           THEN /\ call.exc = NoExc
                /\ call.ret.name = c.name
                /\ call.ret.model = c.model
                /\ call.ret.estimator = c.estimator
                /\ call.ret.custom_parameters = c.custom_parameters
           ELSE /\ ValidationError(call.exc)
                /\ call.ret = NullConfig

\* C15 witness: a configuration with an estimator and custom parameters came
\* back from the text of its mapping.
C15_Witness ==
    /\ call.op = "from_dict"
    /\ call.configs[1].keys = DictKeys
    /\ call.configs[1].custom_parameters = PyStr(<<<<"p", 1>>>>)
    /\ call.ret.estimator = "e1"
    /\ call.ret.custom_parameters = P1

\* C15 in the failing case: a mapping without the key estimator was refused.
C15_WitnessKeys ==
    /\ call.op = "from_dict"
    /\ call.configs[1].keys = DictKeys \ {"estimator"}
    /\ call.exc = Exc("AssertionError", 136)

\* The fields of a configuration fit the registry.
Validated(c) ==
    /\ c.model \in _fit_models
    /\ c.estimator = None \/ c.estimator \in estimators(c.model)
    /\ \/ c.custom_parameters.kind = "None"
       \/ /\ c.custom_parameters.kind = "Parameters"
          /\ \A n \in c.custom_parameters.items :
                 \E q \in make_params(c.model) : q.name = n.name

\* A value the custom_parameters setter must refuse for configuration c.
Refused(c, value) ==
    /\ value.kind # "None"
    /\ \/ value.kind # "Parameters"
       \/ \E n \in value.items : \A q \in make_params(c.model) : q.name # n.name

\* C17: every configuration of the list has a registered model, no estimator
\* or one of its model, and custom parameters that are None or settings of
\* parameters of its model; an assignment of an estimator or of custom
\* parameters that would break this fails with ValidationError and leaves
\* the configuration as it was.
C17_FieldsValidated ==
    /\ [](\A i \in 1..Len(fit_configurations) : Validated(fit_configurations[i]))
    /\ [][/\ call'.op = "estimator"
             => LET c == fit_configurations[call'.row]
                IN  IF call'.estimator # None
                       /\ call'.estimator \notin estimators(c.model)
                    THEN /\ ValidationError(call'.exc)
                         /\ fit_configurations' = fit_configurations
                    ELSE /\ call'.exc = NoExc
                         /\ fit_configurations'[call'.row].estimator = call'.estimator
          /\ call'.op = "custom_parameters"
             => LET c == fit_configurations[call'.row]
                IN  IF Refused(c, call'.custom_parameters)
                    THEN /\ ValidationError(call'.exc)
                         /\ fit_configurations' = fit_configurations
                    ELSE /\ call'.exc = NoExc
                         /\ fit_configurations'[call'.row].custom_parameters.items
                                = call'.custom_parameters.items
          /\ (call'.op = "setData" /\ call'.exc.type = "AssertionError")
             => /\ ValidationError(call'.exc)
                /\ fit_configurations' = fit_configurations]_setvars

\* C17 witness: an assignment of settings of a parameter the model does not
\* have was refused and the configuration kept its custom parameters.
C17_Witness ==
    /\ call.op = "custom_parameters"
    /\ call.custom_parameters = Parameters({[name |-> "z", val |-> 1]})
    /\ call.exc = Exc("AssertionError", 121)
    /\ fit_configurations[call.row].custom_parameters = P1

\* C17 for the estimator: an estimator the model does not have was refused.
C17_WitnessEstimator ==
    /\ call.op = "estimator"
    /\ call.estimator = "ex"
    /\ call.exc = Exc("AssertionError", 99)
    /\ fit_configurations[call.row].estimator = "e1"

\* C18: setData, the two setters, get_configuration_by_name, dump_configs
\* and every step of fit_data leave the number of configurations, their
\* order and the name and model of each as they were, and setData leaves
\* estimator and custom parameters of every row but its own as they were.
C18_NameAndModelFixed ==
    [][(\/ call'.op \in {"setData", "estimator", "custom_parameters",
                         "get_configuration_by_name", "dump_configs"}
        \/ \E t \in Threads : op'[t] = "fit_data" /\ pc'[t] # pc[t])
       => /\ Len(fit_configurations') = Len(fit_configurations)
          /\ \A i \in 1..Len(fit_configurations) :
                 /\ fit_configurations'[i].name = fit_configurations[i].name
                 /\ fit_configurations'[i].model = fit_configurations[i].model
                 /\ (call' # call /\ call'.op = "setData" /\ i # call'.row)
                    => fit_configurations'[i] = fit_configurations[i]]_vars

\* C18 witness: setData has reset the first row while the second row keeps
\* its estimator and its custom parameters.
C18_Witness ==
    /\ call.op = "setData"
    /\ call.row = 1
    /\ call.exc = NoExc
    /\ configuration_names = <<"a", "b">>
    /\ fit_configurations[1].estimator = None
    /\ fit_configurations[1].custom_parameters = PyNone
    /\ fit_configurations[2].estimator = "e1"
    /\ fit_configurations[2].custom_parameters = P1

\* C18 for fit_data: a fit of "b" has returned and the list is as it was.
C18_WitnessFit ==
    /\ op[1] = "fit_data"
    /\ pc[1] = "idle"
    /\ ret[1][1] = "b"
    /\ configuration_names = <<"a", "b">>

C19_EmitAfterRelease ==
    [][\A t \in Threads :
          Len(sigLastFitResultChanged'[t]) > Len(sigLastFitResultChanged[t])
          => access_lock # t /\ access_lock' # t]_vars

\* C20 as stated: in every state the stored name is not empty, the stored
\* result is None exactly when the name is "No Fit", and a result stored
\* under another name was computed for that name.
C20_PairConsistentInEveryState ==
    /\ last_fit_config # ""
    /\ last_fit_result = NoneResult <=> last_fit_config = "No Fit"
    /\ last_fit_config # "No Fit" => last_fit_result.fit_config = last_fit_config

\* C20, amended: the stored name is never empty; in every state in which no
\* fit_data call is between its two assignments (lines 326-327, 345-346),
\* so whenever the lock is free, the stored result is None exactly when the
\* name is "No Fit" and a result stored under another name was computed for
\* that name; the call that has just written the pair finds there its own
\* name and the result it computed.
C20_PairConsistentOutsideWrites ==
    /\ last_fit_config # ""
    /\ (\A t \in Threads : pc[t] \notin {"l327", "l346"})
       => /\ last_fit_result = NoneResult <=> last_fit_config = "No Fit"
          /\ last_fit_config # "No Fit" => last_fit_result.fit_config = last_fit_config
    /\ \A t \in Threads :
           (pc[t] \in {"l347", "l348"} /\ fit_config[t] # "No Fit")
           => last_fit = <<fit_config[t], Result(fit_config[t], t)>>
    /\ access_lock = 0 => WrittenTogether(last_fit)

\* C20 witness: thread 2 has overwritten the pair thread 1 had written under
\* the same name.
C20_Witness ==
    /\ pc[2] = "l347"
    /\ entry[2] = <<"a", Result("a", 1)>>
    /\ last_fit = <<"a", Result("a", 2)>>

====
